---- MODULE Spec2Model ----
(***************************************************************************)
(* Article ingestion (step1_ingest.py), the read API (api.py, index.py,    *)
(* api_server.py) and the alert poller (alert.py) over one SQLite file.    *)
(*                                                                         *)
(* Strings are sequences of one-character strings.  An optional value      *)
(* (Python's None, a missing file, a missing element) is a sequence of     *)
(* length at most one: <<>> is "absent", <<v>> is "present with value v".  *)
(***************************************************************************)
EXTENDS Integers, Sequences, FiniteSets, TLC

\* ------------------------------------------------------------- bounds
\* Largest value of the wall clock, in seconds since the first observation.
MaxClock == 2
\* Seconds in a day of the scaled-down calendar (stands for 86400).
SecondsPerDay == 2
\* Invocations of main() over all ingestion processes.
MaxRuns == 3
\* Invocations of check_for_new_articles().
MaxAlertRuns == 3
\* Longest content of a <title> element.
MaxTitleLen == 3
\* Most <time> elements in a fetched document.
MaxTimes == 2

\* ------------------------------------------------- program constants
\* len(datetime_attr) >= 10 and datetime_attr[:10]
DateLen == 10

\* ------------------------------------------------------------ strings
Digits == <<"0", "1", "2", "3", "4", "5", "6", "7", "8", "9">>

DigitChar(n) == Digits[n + 1]

IsDigit(c) == \E i \in 1..10 : Digits[i] = c

DigitVal(c) == (CHOOSE i \in 1..10 : Digits[i] = c) - 1

\* str.strip() removes this from both ends.
IsSpace(c) == c = " "

RECURSIVE lstrip(_)
lstrip(s) == IF s # <<>> /\ IsSpace(Head(s)) THEN lstrip(Tail(s)) ELSE s

RECURSIVE rstrip(_)
rstrip(s) ==
    IF s # <<>> /\ IsSpace(s[Len(s)]) THEN rstrip(SubSeq(s, 1, Len(s) - 1)) ELSE s

strip(s) == rstrip(lstrip(s))

\* s[:n]
Prefix(s, n) == SubSeq(s, 1, IF Len(s) < n THEN Len(s) ELSE n)

\* str(n) for n >= 0
RECURSIVE IntToStr(_)
IntToStr(n) ==
    IF n < 10 THEN <<DigitChar(n)>> ELSE Append(IntToStr(n \div 10), DigitChar(n % 10))

\* int(s) for a string of digits
RECURSIVE DigitsToInt(_)
DigitsToInt(s) ==
    IF s = <<>> THEN 0
    ELSE 10 * DigitsToInt(SubSeq(s, 1, Len(s) - 1)) + DigitVal(s[Len(s)])

\* ------------------------------------------------------------- clock
\* datetime.utcnow().strftime("%Y-%m-%d"): the calendar day of second t.
FormatDate(t) ==
    <<"2", "0", "2", "4", "-", "0", "3", "-", "0", DigitChar(1 + (t \div SecondsPerDay))>>

\* datetime.utcnow().strftime("%Y-%m-%d %H:%M:%S"), kept as <<day, second of day>>;
\* timestamps of this form order chronologically.
FormatTimestamp(t) == <<t \div SecondsPerDay, t % SecondsPerDay>>

TsLess(a, b) == a[1] < b[1] \/ (a[1] = b[1] /\ a[2] < b[2])

\* --------------------------------------------------------- documents
\* A fetched document: the content of its <title> element, if it has one, and
\* the datetime attribute, if present, of each <time> element in document order.
TitleChars == {" ", "F"}

RECURSIVE StringsUpTo(_, _)
StringsUpTo(chars, n) ==
    IF n = 0 THEN {<<>>}
    ELSE LET shorter == StringsUpTo(chars, n - 1)
         IN shorter \cup {Append(s, c) : s \in shorter, c \in chars}

Optional(S) == {<<>>} \cup {<<v>> : v \in S}

\* 13, 10 and 9 characters
LongAttr == <<"2", "0", "2", "2", "-", "1", "2", "-", "3", "1", "T", "0", "8">>
ExactAttr == <<"2", "0", "2", "3", "-", "0", "1", "-", "0", "5">>
ShortAttr == <<"2", "0", "2", "3", "-", "0", "1", "-", "0">>

DatetimeAttrs == Optional({ShortAttr, ExactAttr, LongAttr})

RECURSIVE SeqsUpTo(_, _)
SeqsUpTo(S, n) ==
    IF n = 0 THEN {<<>>}
    ELSE LET shorter == SeqsUpTo(S, n - 1)
         IN shorter \cup {Append(s, v) : s \in shorter, v \in S}

Docs ==
    [title : Optional(StringsUpTo(TitleChars, MaxTitleLen)),
     times : SeqsUpTo(DatetimeAttrs, MaxTimes)]

\* <title> F </title><time datetime="2023-01-05"> and a document with neither
\* element: the documents the concurrent pipeline is run on.
SampleDocs ==
    {[title |-> <<<<" ", "F">>>>, times |-> <<<<ExactAttr>>>>],
     [title |-> <<>>, times |-> <<>>]}

URLs == {<<"/", "a">>, <<"/", "b">>}

ARTICLE_URL == <<"/", "a">>

\* ----------------------------------------------------- fetch_article
\* The last datetime attribute that qualifies, instead of the first.
RECURSIVE LastDate(_)
LastDate(times) ==
    IF times = <<>> THEN <<>>
    ELSE LET datetime_attr == times[Len(times)]
         IN IF datetime_attr # <<>> /\ datetime_attr[1] # <<>>
               /\ Len(datetime_attr[1]) >= DateLen
            THEN <<Prefix(datetime_attr[1], DateLen)>>
            ELSE LastDate(SubSeq(times, 1, Len(times) - 1))

\* The loop over soup.find_all("time"): the first datetime attribute that is
\* truthy and at least DateLen long, cut to DateLen; absent when none is.
RECURSIVE FirstDate(_)
FirstDate(times) ==
    IF times = <<>> THEN <<>>
    ELSE LET datetime_attr == Head(times)
         IN IF datetime_attr # <<>> /\ datetime_attr[1] # <<>>
               /\ Len(datetime_attr[1]) >= DateLen
            THEN <<Prefix(datetime_attr[1], DateLen)>>
            ELSE FirstDate(Tail(times))

\* fetch_article with a loop that keeps the last qualifying <time> (no break).
fetch_article_last_time(u, d, t) ==
    LET title_tag == d.title
        date_str == LastDate(d.times)
    IN [title |-> IF title_tag # <<>> THEN strip(title_tag[1]) ELSE u,
        pub_date |-> IF date_str = <<>> \/ date_str[1] = <<>>
                     THEN FormatDate(t) ELSE date_str[1]]

\* The parse of a successfully fetched document d of url u at clock t:
\* title_tag.text.strip() or the url; the first qualifying date or today's.
fetch_article(u, d, t) ==
    LET title_tag == d.title
        date_str == FirstDate(d.times)
    IN [title |-> IF title_tag # <<>> THEN strip(title_tag[1]) ELSE u,
        pub_date |-> IF date_str = <<>> \/ date_str[1] = <<>>
                     THEN FormatDate(t) ELSE date_str[1]]

\* ------------------------------------------------------------- store
\* INSERT without the ON CONFLICT clause: the UNIQUE constraint on url raises.
save_article_insert_only(arts, newId, u, ti, pd, fa) ==
    IF \E a \in arts : a.url = u
    THEN [articles |-> arts, error |-> "IntegrityError"]
    ELSE [articles |-> arts \cup {[id |-> newId, url |-> u, title |-> ti,
                                   publication_date |-> pd, fetched_at |-> fa]},
          error |-> "none"]

\* INSERT OR REPLACE: the conflicting row is deleted and a new one inserted.
save_article_replace(arts, newId, u, ti, pd, fa) ==
    [articles |-> {a \in arts : a.url # u}
                  \cup {[id |-> newId, url |-> u, title |-> ti,
                         publication_date |-> pd, fetched_at |-> fa]},
     error |-> "none"]

\* INSERT ... ON CONFLICT(url) DO UPDATE SET title, publication_date, fetched_at,
\* then commit: one atomic statement on table articles (url UNIQUE, id the
\* AUTOINCREMENT key, newId the key a new row gets).
save_article(arts, newId, u, ti, pd, fa) ==
    IF \E a \in arts : a.url = u
    THEN [articles |-> {IF a.url = u
                        THEN [a EXCEPT !.title = ti, !.publication_date = pd,
                                       !.fetched_at = fa]
                        ELSE a : a \in arts},
          error |-> "none"]
    ELSE [articles |-> arts \cup {[id |-> newId, url |-> u, title |-> ti,
                                   publication_date |-> pd, fetched_at |-> fa]},
          error |-> "none"]

\* ------------------------------------------------------------ queries
RECURSIVE OrderByIdAsc(_)
OrderByIdAsc(rows) ==
    IF rows = {} THEN <<>>
    ELSE LET m == CHOOSE a \in rows : \A b \in rows : a.id <= b.id
         IN <<m>> \o OrderByIdAsc(rows \ {m})

RECURSIVE OrderByIdDesc(_)
OrderByIdDesc(rows) ==
    IF rows = {} THEN <<>>
    ELSE LET m == CHOOSE a \in rows : \A b \in rows : b.id <= a.id
         IN <<m>> \o OrderByIdDesc(rows \ {m})

\* ORDER BY id (ascending)
list_articles_ascending(arts) == OrderByIdAsc(arts)

\* SELECT id, url, title, publication_date, fetched_at FROM articles ORDER BY id DESC
\* as api.py, index.py and api_server.py each state it.
list_articles_api(arts) == OrderByIdDesc(arts)

list_articles_index(arts) == OrderByIdDesc(arts)

list_articles_api_server(arts) == OrderByIdDesc(arts)

list_articles(entry, arts) ==
    CASE entry = "api" -> list_articles_api(arts)
      [] entry = "index" -> list_articles_index(arts)
      [] entry = "api_server" -> list_articles_api_server(arts)

\* SELECT ... FROM articles WHERE id=?  with fetchone(): the row, or absent.
get_article(arts, article_id) ==
    IF \E a \in arts : a.id = article_id
    THEN <<CHOOSE a \in arts : a.id = article_id>>
    ELSE <<>>

\* -------------------------------------------------------------- alert
\* get_last_alerted_id(): the state file, when it exists, stripped and parsed
\* as an integer; 0 when it is missing or does not parse.
get_last_alerted_id(file) ==
    IF file # <<>>
    THEN LET text == strip(file[1])
         IN IF text # <<>> /\ \A i \in 1..Len(text) : IsDigit(text[i])
            THEN DigitsToInt(text) ELSE 0
    ELSE 0

\* set_last_alerted_id(): STATE_PATH.write_text(str(article_id))
set_last_alerted_id(article_id) == <<IntToStr(article_id)>>

\* The same query with WHERE id >= ?
select_new_inclusive(arts, last) ==
    LET r == OrderByIdAsc({a \in arts : a.id >= last})
    IN [i \in 1..Len(r) |-> [id |-> r[i].id, title |-> r[i].title]]

\* SELECT id, title FROM articles WHERE id > ? ORDER BY id
select_new(arts, last) ==
    LET r == OrderByIdAsc({a \in arts : a.id > last})
    IN [i \in 1..Len(r) |-> [id |-> r[i].id, title |-> r[i].title]]

\* -------------------------------------------------------------- state
Procs == {"p1", "p2"}

VARIABLES
    now,          \* the UTC wall clock, in seconds
    tableExists,  \* data.db holds table articles
    articles,     \* the rows of table articles
    seq,          \* sqlite_sequence of articles: the largest key ever generated
    pc,           \* per ingestion process: where main() stands
    url,          \* per process: the url being ingested
    doc,          \* per process: response.text, parsed
    title,        \* per process: main()'s title
    pub_date,     \* per process: main()'s pub_date
    fetched_at,   \* per process: save_article()'s fetched_at
    conn,         \* per process: the connection init_db() returned
    err,          \* per process: the exception that ended main(), if any
    fetches,      \* per process: requests.get calls of this invocation
    writes,       \* per process: upserts committed by this invocation
    runs,         \* invocations of main() so far
    order,        \* urls in the order of their latest committed upsert
    resp,         \* the response of the read handler that ran in the last step
    apc,          \* where check_for_new_articles() stands
    rows,         \* its fetched rows not yet looped over
    aconn,        \* its connection
    stateFile,    \* alert_state.txt: absent, or its text
    alerts,       \* ids of the ALERT lines printed so far
    snap,         \* ids in articles when the current run's SELECT executed
    aruns         \* invocations of check_for_new_articles() so far

vars ==
    <<now, tableExists, articles, seq, pc, url, doc, title, pub_date, fetched_at,
      conn, err, fetches, writes, runs, order, resp, apc, rows, aconn, stateFile,
      alerts, snap, aruns>>

storeVars == <<tableExists, articles, seq, order>>

procVars == <<pc, url, doc, title, pub_date, fetched_at, conn, err, fetches, writes, runs>>

alertVars == <<apc, rows, aconn, stateFile, alerts, snap, aruns>>

NoDoc == [title |-> <<>>, times |-> <<>>]

NoResp == [op |-> "none", entry |-> "none", status |-> "none", body |-> <<>>,
           conn |-> "none"]

Entries == {"api", "index", "api_server"}

Init ==
    /\ now = 0
    /\ tableExists = FALSE
    /\ articles = {}
    /\ seq = 0
    /\ pc = [p \in Procs |-> "idle"]
    /\ url = [p \in Procs |-> <<>>]
    /\ doc = [p \in Procs |-> NoDoc]
    /\ title = [p \in Procs |-> <<>>]
    /\ pub_date = [p \in Procs |-> <<>>]
    /\ fetched_at = [p \in Procs |-> <<0, 0>>]
    /\ conn = [p \in Procs |-> "none"]
    /\ err = [p \in Procs |-> "none"]
    /\ fetches = [p \in Procs |-> 0]
    /\ writes = [p \in Procs |-> 0]
    /\ runs = 0
    /\ order = <<>>
    /\ resp = NoResp
    /\ apc = "idle"
    /\ rows = <<>>
    /\ aconn = "none"
    /\ stateFile = <<>>
    /\ alerts = <<>>
    /\ snap = {}
    /\ aruns = 0

\* The clock advances by one second.
Tick ==
    /\ now < MaxClock
    /\ now' = now + 1
    /\ resp' = NoResp
    /\ UNCHANGED <<storeVars, procVars, alertVars>>

\* ---------------------------------------------------------- ingestion
\* A process starts main() on url u: conn = init_db(DB_PATH) connects and
\* creates table articles if it does not exist.
Start(p, u) ==
    /\ pc[p] \in {"idle", "done", "failed"}
    /\ runs < MaxRuns
    /\ runs' = runs + 1
    /\ pc' = [pc EXCEPT ![p] = "connected"]
    /\ url' = [url EXCEPT ![p] = u]
    /\ conn' = [conn EXCEPT ![p] = "open"]
    /\ tableExists' = TRUE
    /\ doc' = [doc EXCEPT ![p] = NoDoc]
    /\ title' = [title EXCEPT ![p] = <<>>]
    /\ pub_date' = [pub_date EXCEPT ![p] = <<>>]
    /\ fetched_at' = [fetched_at EXCEPT ![p] = <<0, 0>>]
    /\ err' = [err EXCEPT ![p] = "none"]
    /\ fetches' = [fetches EXCEPT ![p] = 0]
    /\ writes' = [writes EXCEPT ![p] = 0]
    /\ resp' = NoResp
    /\ UNCHANGED <<now, articles, seq, order, alertVars>>

\* requests.get and raise_for_status succeed with document d; fetch_article
\* parses it and returns (title, date_str).
FetchOk(p, d) ==
    /\ pc[p] = "connected"
    /\ LET r == fetch_article(url[p], d, now)
       IN /\ title' = [title EXCEPT ![p] = r.title]
          /\ pub_date' = [pub_date EXCEPT ![p] = r.pub_date]
    /\ doc' = [doc EXCEPT ![p] = d]
    /\ fetches' = [fetches EXCEPT ![p] = @ + 1]
    /\ pc' = [pc EXCEPT ![p] = "fetched"]
    /\ resp' = NoResp
    /\ UNCHANGED <<now, storeVars, url, fetched_at, conn, err, writes, runs, alertVars>>

\* A failed fetch is fetched again.
FetchFailRetry(p) ==
    /\ pc[p] = "connected"
    /\ fetches' = [fetches EXCEPT ![p] = @ + 1]
    /\ resp' = NoResp
    /\ UNCHANGED <<now, storeVars, pc, url, doc, title, pub_date, fetched_at, conn,
                   err, writes, runs, alertVars>>

\* requests.get raises (network error, timeout) or raise_for_status raises:
\* the exception leaves fetch_article and main.
FetchFail(p) ==
    /\ pc[p] = "connected"
    /\ fetches' = [fetches EXCEPT ![p] = @ + 1]
    /\ pc' = [pc EXCEPT ![p] = "failed"]
    /\ err' = [err EXCEPT ![p] = "FetchError"]
    /\ resp' = NoResp
    /\ UNCHANGED <<now, storeVars, url, doc, title, pub_date, fetched_at, conn,
                   writes, runs, alertVars>>

\* save_article reads the clock: fetched_at = utcnow().strftime(...).
Stamp(p) ==
    /\ pc[p] = "fetched"
    /\ fetched_at' = [fetched_at EXCEPT ![p] = FormatTimestamp(now)]
    /\ pc' = [pc EXCEPT ![p] = "stamped"]
    /\ resp' = NoResp
    /\ UNCHANGED <<now, storeVars, url, doc, title, pub_date, conn, err, fetches,
                   writes, runs, alertVars>>

\* save_article executes the upsert and commits; main prints and returns, and
\* its locals are gone.  An
\* upsert that updates may or may not advance sqlite_sequence (the engine
\* generates the candidate key before it finds the conflict).
Commit(p) ==
    /\ pc[p] = "stamped"
    /\ LET r == save_article(articles, seq + 1, url[p], title[p], pub_date[p],
                             fetched_at[p])
           existed == \E a \in articles : a.url = url[p]
       IN IF r.error = "none"
          THEN /\ articles' = r.articles
               /\ seq' \in (IF existed THEN {seq, seq + 1} ELSE {seq + 1})
               /\ order' = Append(SelectSeq(order, LAMBDA v : v # url[p]), url[p])
               /\ writes' = [writes EXCEPT ![p] = @ + 1]
               /\ pc' = [pc EXCEPT ![p] = "done"]
               /\ err' = err
          ELSE /\ UNCHANGED <<articles, seq, order, writes>>
               /\ pc' = [pc EXCEPT ![p] = "failed"]
               /\ err' = [err EXCEPT ![p] = r.error]
    /\ title' = [title EXCEPT ![p] = <<>>]
    /\ pub_date' = [pub_date EXCEPT ![p] = <<>>]
    /\ fetched_at' = [fetched_at EXCEPT ![p] = <<0, 0>>]
    /\ resp' = NoResp
    /\ UNCHANGED <<now, tableExists, url, doc, conn, fetches, runs, alertVars>>

\* ----------------------------------------------------------- read API
\* GET / (api.py, index.py) or GET /articles (api_server.py): connect, execute
\* the SELECT, close, return the rows.  Without table articles the execute
\* raises sqlite3.OperationalError before conn.close() is reached.
ListArticles(entry) ==
    /\ resp' = IF tableExists
               THEN [op |-> "list", entry |-> entry, status |-> "ok",
                     body |-> list_articles(entry, articles), conn |-> "closed"]
               ELSE [op |-> "list", entry |-> entry, status |-> "error",
                     body |-> <<>>, conn |-> "open"]
    /\ UNCHANGED <<now, storeVars, procVars, alertVars>>

\* GET /{article_id}: connect, execute, fetchone, close; 404 when there is no row.
GetArticle(entry, article_id) ==
    /\ resp' = IF tableExists
               THEN LET row == get_article(articles, article_id)
                    IN [op |-> "get", entry |-> entry,
                        status |-> IF row = <<>> THEN "not_found" ELSE "ok",
                        body |-> row, conn |-> "closed"]
               ELSE [op |-> "get", entry |-> entry, status |-> "error",
                     body |-> <<>>, conn |-> "open"]
    /\ UNCHANGED <<now, storeVars, procVars, alertVars>>

\* -------------------------------------------------------- alert poller
\* check_for_new_articles() connects, reads the watermark and fetches the rows
\* above it.  Without table articles the execute raises and the run ends there.
AlertStart ==
    /\ apc \in {"idle", "done", "crashed"}
    /\ aruns < MaxAlertRuns
    /\ aruns' = aruns + 1
    /\ aconn' = "open"
    /\ IF tableExists
       THEN LET last_id == get_last_alerted_id(stateFile)
            IN /\ rows' = select_new(articles, last_id)
               /\ snap' = {a.id : a \in articles}
               /\ apc' = "loop"
       ELSE /\ rows' = <<>>
            /\ snap' = {}
            /\ apc' = "crashed"
    /\ resp' = NoResp
    /\ UNCHANGED <<now, storeVars, procVars, stateFile, alerts>>

\* One turn of the loop: print the ALERT line, persist the id.
AlertRow ==
    /\ apc = "loop"
    /\ rows # <<>>
    /\ alerts' = Append(alerts, Head(rows).id)
    /\ stateFile' = set_last_alerted_id(Head(rows).id)
    /\ rows' = Tail(rows)
    /\ resp' = NoResp
    /\ UNCHANGED <<now, storeVars, procVars, apc, aconn, snap, aruns>>

\* The loop is over (or there was no row: "No new articles since last check.");
\* conn.close().
AlertEnd ==
    /\ apc = "loop"
    /\ rows = <<>>
    /\ apc' = "done"
    /\ aconn' = "closed"
    /\ resp' = NoResp
    /\ UNCHANGED <<now, storeVars, procVars, rows, stateFile, alerts, snap, aruns>>

\* ------------------------------------------------------ specifications
\* Concurrent ingestion processes and the clock.
Next ==
    \/ \E p \in Procs, u \in URLs : Start(p, u)
    \/ \E p \in Procs, d \in SampleDocs : FetchOk(p, d)
    \/ \E p \in Procs : FetchFail(p)
    \/ \E p \in Procs : Stamp(p)
    \/ \E p \in Procs : Commit(p)
    \/ Tick

Spec == Init /\ [][Next]_vars

\* One ingestion process at a time, the clock and the read API.
NextRead ==
    \/ \E u \in URLs : Start("p1", u)
    \/ \E d \in SampleDocs : FetchOk("p1", d)
    \/ FetchFail("p1")
    \/ Stamp("p1")
    \/ Commit("p1")
    \/ Tick
    \/ \E e \in Entries : ListArticles(e)
    \/ \E e \in Entries, i \in 0..(seq + 1) : GetArticle(e, i)

SpecRead == Init /\ [][NextRead]_vars

\* One invocation of main() on ARTICLE_URL, over every document.
NextExtract ==
    \/ runs = 0 /\ Start("p1", ARTICLE_URL)
    \/ \E d \in Docs : FetchOk("p1", d)
    \/ FetchFail("p1")
    \/ Stamp("p1")
    \/ Commit("p1")
    \/ Tick

SpecExtract == Init /\ [][NextExtract]_vars

\* One ingestion process at a time and the alert poller.
NextAlert ==
    \/ \E u \in URLs : Start("p1", u)
    \/ \E d \in SampleDocs : FetchOk("p1", d)
    \/ FetchFail("p1")
    \/ Stamp("p1")
    \/ Commit("p1")
    \/ AlertStart
    \/ AlertRow
    \/ AlertEnd

SpecAlert == Init /\ [][NextAlert]_vars

\* ------------------------------------------------------------- claims
Range(f) == {f[i] : i \in DOMAIN f}

Ids(arts) == {a.id : a \in arts}

\* C1: after any interleaving of ingestions, concurrent ones of the same url
\* included, articles holds exactly one record per distinct url whose upsert
\* committed, and no ingestion ends with a duplicate-key error.
C1_OneRecordPerUrl ==
    /\ \A a, b \in articles : a.url = b.url => a = b
    /\ {a.url : a \in articles} = Range(order)
    /\ Cardinality(articles) = Cardinality(Range(order))
    /\ \A p \in Procs : err[p] # "IntegrityError"

\* Two processes have both committed an upsert of the same url.
C1_Witness ==
    \E p, q \in Procs :
        /\ p # q
        /\ pc[p] = "done" /\ pc[q] = "done"
        /\ url[p] = url[q]
        /\ writes[p] = 1 /\ writes[q] = 1
        /\ Cardinality(articles) = 1

\* C2: an upsert of a url that has a record keeps the record's id and the
\* number of records, leaves every other record as it was, and sets title,
\* publication_date and fetched_at to the values of that one call.
C2_UpdateInPlace ==
    [][\A p \in Procs :
          (pc[p] = "stamped" /\ pc'[p] # "stamped"
           /\ \E a \in articles : a.url = url[p])
          => LET old == CHOOSE a \in articles : a.url = url[p]
                 new == [id |-> old.id, url |-> url[p], title |-> title[p],
                         publication_date |-> pub_date[p],
                         fetched_at |-> fetched_at[p]]
             IN /\ pc'[p] = "done"
                /\ articles' = (articles \ {old}) \cup {new}
                /\ Cardinality(articles') = Cardinality(articles)]_vars

\* The record with id 1 was upserted again after a second record was created,
\* and holds a later fetched_at than the clock's start.
C2_Witness ==
    /\ Cardinality(articles) = 2
    /\ \E a \in articles :
          /\ a.id = 1
          /\ order[Len(order)] = a.url
          /\ a.fetched_at # <<0, 0>>

\* C3: an ingestion whose fetch fails makes exactly one fetch attempt, never
\* executes save_article, leaves the records as they were, and ends with the
\* fetch error; a process that failed does nothing more until it is invoked anew.
C3_FetchFailureAborts ==
    /\ [](\A p \in Procs :
            /\ fetches[p] <= 1
            /\ pc[p] = "failed"
               => fetches[p] = 1 /\ writes[p] = 0 /\ err[p] = "FetchError")
    /\ [][\A p \in Procs :
            /\ (pc[p] # "failed" /\ pc'[p] = "failed")
               => pc[p] = "connected" /\ articles' = articles /\ seq' = seq
            /\ (pc[p] = "failed" /\ pc'[p] # "failed")
               => pc'[p] = "connected" /\ fetches'[p] = 0 /\ writes'[p] = 0]_vars

\* A fetch failed while another ingestion's record is stored.
C3_Witness ==
    \E p \in Procs :
        /\ pc[p] = "failed"
        /\ err[p] = "FetchError"
        /\ articles # {}

\* C4: across ingestions of one url, concurrent ones included, a record's
\* fetched_at never moves back to an earlier timestamp.
C4_FetchedAtNeverMovesBack ==
    [][\A a \in articles : \A b \in articles' :
          a.id = b.id => ~TsLess(b.fetched_at, a.fetched_at)]_vars

\* C5: list_articles, at each of the three entry points, answers with every
\* stored record exactly once in strictly descending id order, and with the
\* empty sequence when the table has no rows.
C5_ListAllByIdDesc ==
    (resp.op = "list" /\ tableExists)
    => /\ resp.status = "ok"
       /\ Len(resp.body) = Cardinality(articles)
       /\ Range(resp.body) = articles
       /\ \A i, j \in 1..Len(resp.body) : i < j => resp.body[i].id > resp.body[j].id
       /\ articles = {} => resp.body = <<>>

\* index.py listed two stored records.
C5_Witness ==
    /\ resp.op = "list"
    /\ resp.entry = "index"
    /\ Len(resp.body) = 2

\* C6: list_articles orders by latest ingestion: a record whose url was last
\* upserted later than another's comes before it.
C6_MostRecentlyIngestedFirst ==
    (resp.op = "list" /\ resp.status = "ok")
    => \A i, j \in 1..Len(resp.body) :
          i < j
          => \E m, n \in 1..Len(order) :
                /\ order[m] = resp.body[i].url
                /\ order[n] = resp.body[j].url
                /\ m > n

\* C7: with no articles table, or an empty one, list_articles answers with the
\* empty list and get_article with not-found; neither raises a storage error.
C7_EmptyResultsWithoutTable ==
    (~tableExists \/ articles = {})
    => /\ resp.op = "list" => resp.status = "ok" /\ resp.body = <<>>
       /\ resp.op = "get" => resp.status = "not_found"

\* C8: an ingestion, a query or an alert run that has ended, however it ended,
\* has closed the connection it opened.
C8_ConnectionsReleased ==
    /\ \A p \in Procs : pc[p] \in {"done", "failed"} => conn[p] = "closed"
    /\ resp.op # "none" => resp.conn = "closed"
    /\ apc \in {"done", "crashed"} => aconn = "closed"

\* t is s without the whitespace at its two ends.
IsTrimOf(t, s) ==
    /\ t # <<>> => ~IsSpace(t[1]) /\ ~IsSpace(t[Len(t)])
    /\ \E i, j \in 0..Len(s) :
          /\ i + Len(t) + j = Len(s)
          /\ \A k \in 1..Len(t) : s[i + k] = t[k]
          /\ \A k \in 1..i : IsSpace(s[k])
          /\ \A k \in 1..j : IsSpace(s[Len(s) - j + k])

\* A <time> element whose datetime attribute is present and at least DateLen long.
Qualifies(attr) == attr # <<>> /\ Len(attr[1]) >= DateLen

\* pd is the first DateLen characters of the first qualifying attribute of
\* times, or the date of second t when none qualifies.
IsDateOf(pd, times, t) ==
    LET Q == {k \in 1..Len(times) : Qualifies(times[k])}
    IN IF Q = {}
       THEN pd = FormatDate(t)
       ELSE LET k == CHOOSE m \in Q : \A n \in Q : m <= n
            IN /\ Len(pd) = DateLen
               /\ \A i \in 1..DateLen : pd[i] = times[k][1][i]

\* C9: the parse of a fetched document never fails; it returns the trimmed
\* content of the title element, or the url when there is none, and the first
\* 10 characters of the first datetime attribute that is present and at least
\* 10 long, or the UTC date of the ingestion when there is none; the record
\* stored holds these two values.
C9_ExtractionFallbacks ==
    /\ [](\A p \in Procs : err[p] \in {"none", "FetchError"})
    /\ [][\A p \in Procs :
            /\ (pc[p] = "connected" /\ pc'[p] # "connected" /\ err'[p] = "none")
               => /\ pc'[p] = "fetched"
                  /\ IF doc'[p].title = <<>>
                     THEN title'[p] = url[p]
                     ELSE IsTrimOf(title'[p], doc'[p].title[1])
                  /\ IsDateOf(pub_date'[p], doc'[p].times, now)
            /\ (pc[p] = "stamped" /\ pc'[p] = "done")
               => \E a \in articles' :
                     /\ a.url = url[p]
                     /\ a.title = title[p]
                     /\ a.publication_date = pub_date[p]]_vars

\* A document with no title element and one <time> whose attribute is too
\* short was ingested on the second day: the record holds the url and that day.
C9_Witness ==
    /\ pc["p1"] = "done"
    /\ doc["p1"] = [title |-> <<>>, times |-> <<<<ShortAttr>>>>]
    /\ \E a \in articles :
          /\ a.title = ARTICLE_URL
          /\ a.publication_date = FormatDate(SecondsPerDay)

IsIncreasing(ids) == \A i, j \in 1..Len(ids) : i < j => ids[i] < ids[j]

Watermark == get_last_alerted_id(stateFile)

\* Each id is alerted at most once, only ids of stored records are alerted,
\* and the watermark is the largest id alerted so far.
AlertsOnce ==
    /\ IsIncreasing(alerts)
    /\ Range(alerts) \subseteq Ids(articles)
    /\ Watermark = IF alerts = <<>> THEN 0 ELSE alerts[Len(alerts)]

\* C10 as stated: each id is alerted exactly once, by the first run that
\* completes after its record was inserted, never again, and the watermark
\* never decreases and is the largest id alerted so far.
C10_AlertedByFirstRunCompleting ==
    /\ []AlertsOnce
    /\ [][/\ get_last_alerted_id(stateFile') >= get_last_alerted_id(stateFile)
          /\ (apc # "done" /\ apc' = "done")
             => Ids(articles) \subseteq Range(alerts')]_vars

\* C10 as amended: each id is alerted at most once, by the first run whose
\* SELECT executes after its record was inserted; a later run or a repeated
\* ingestion of its url never alerts it again; the watermark never decreases
\* and is the largest id alerted so far.
C10_AlertedByFirstRunSelecting ==
    /\ [](AlertsOnce /\ (apc = "done" => snap \subseteq Range(alerts)))
    /\ [][get_last_alerted_id(stateFile') >= get_last_alerted_id(stateFile)]_vars

\* Two records were alerted by two runs, the first record's url was ingested
\* again, and a third run has ended without a new alert.
C10_Witness ==
    /\ apc = "done"
    /\ aruns = 3
    /\ alerts = <<1, 2>>
    /\ Len(order) = 2
    /\ \E a \in articles : a.id = 1 /\ order[2] = a.url

====
